---- MODULE Spec2Model ----
(***************************************************************************)
(* Model of the timesheet core of timesheet_opentalk (main.go):            *)
(* SortActivities -> processActivities -> FilterSessions ->                 *)
(* CalculateTotalTimeForDate, as it is run by the request handler of main. *)
(*                                                                         *)
(* Time is counted in minutes.  A time.Time is a record [t, off]: t is the *)
(* instant (minutes since a UTC midnight), off the UTC offset in minutes   *)
(* of the Location that time.Parse attached to it.  A timestamp string is  *)
(* [ok, t, off]: ok = FALSE is a string time.Parse rejects.  A Go string   *)
(* is a tuple of character codes, so that + and < are concatenation and    *)
(* lexicographic order.                                                    *)
(***************************************************************************)
EXTENDS Integers, Sequences, FiniteSets, Bags, TLC

VARIABLES
    pc,               \* position of the handler in the pipeline
    timeParam,        \* the "time" query parameter of the request
    date,             \* the target date handed to CalculateTotalTimeForDate
    activities,       \* []VoiceChannelUser returned by FetchActivities
    userSessions,     \* processActivities: map DisplayName -> []VoiceChannelUser
    remaining,        \* processActivities: keys of userSessions not yet ranged over
    curUser,          \* processActivities: key of the partition being iterated
    idx,              \* processActivities: index of the next activity of the partition
    currentSession,   \* processActivities: <<>> is nil, <<s>> points to the open session
    sessions,         \* processActivities: the sessions emitted so far / its result
    parseErr,         \* processActivities left through one of its "return nil"
    filteredSessions, \* result of FilterSessions
    totalTimeMap      \* result of CalculateTotalTimeForDate

vars == <<pc, timeParam, date, activities, userSessions, remaining, curUser, idx,
          currentSession, sessions, parseErr, filteredSessions, totalTimeMap>>

----------------------------------------------------------------------------
(* Bounds of the model *)

MaxEvents == 2        \* longest batch of events drawn freely
MaxSessions == 3      \* longest session list handed to FilterSessions directly
MaxAggSessions == 2   \* longest session list handed to CalculateTotalTimeForDate directly

----------------------------------------------------------------------------
(* Time *)

Hour == 60
Day == 24 * Hour
ZeroTime == 0                  \* the instant of time.Time{}
StartHour == 3
EndHour == 5
ActiveState == 2
InactiveState == 0

TargetMidnight == 2 * Day      \* UTC midnight of the target day (2024-08-06 in the examples)
At(h, m) == TargetMidnight + h * Hour + m

Time(t, off) == [t |-> t, off |-> off]
Stamp(t, off) == [ok |-> TRUE, t |-> t, off |-> off]
BadStamp == [ok |-> FALSE, t |-> 0, off |-> 0]

\* time.Parse(time.RFC3339, s): the error result
ParseNeverFails(ts) == FALSE
ParseFails(ts) == ~ts.ok
\* time.Parse(time.RFC3339, s): the time result, in the zone the string names
Parse(ts) == Time(ts.t, ts.off)

Before(a, b) == a.t < b.t
After(a, b) == a.t > b.t
\* Year() and YearDay() together: the calendar day in the value's own Location
CalendarDay(x) == (x.t + x.off) \div Day
\* the calendar day of the instant in UTC
UTCDay(x) == x.t \div Day
\* Truncate(24 * time.Hour)
Truncate(x) == Time(x.t - (x.t % Day), x.off)
Add(x, d) == Time(x.t + d, x.off)
Sub(a, b) == a.t - b.t

minTimeNew(a, b) == b
minTime(a, b) == IF Before(a, b) THEN a ELSE b

maxTimeNew(a, b) == b
maxTime(a, b) == IF After(a, b) THEN a ELSE b

----------------------------------------------------------------------------
(* Strings *)

RECURSIVE StrLess(_, _)
StrLess(a, b) ==
    IF b = <<>> THEN FALSE
    ELSE IF a = <<>> THEN TRUE
    ELSE IF Head(a) # Head(b) THEN Head(a) < Head(b)
    ELSE StrLess(Tail(a), Tail(b))

\* "a", "ab", "bc", "c"
StrA == <<1>>
StrAB == <<1, 2>>
StrBC == <<2, 3>>
StrC == <<3>>

----------------------------------------------------------------------------
(* Records *)

VoiceChannelUser(name, uid, ct, ut, act) ==
    [DisplayName |-> name, UserID |-> uid, CreateTime |-> ct,
     UpdateTime |-> ut, Active |-> act]

Session(name, gid, st, et) ==
    [Name |-> name, GoogleID |-> gid, StartTime |-> st, EndTime |-> et]

SessionTime(name, gid, total, d) ==
    [Name |-> name, GoogleID |-> gid, TotalTime |-> total, Date |-> d]

EmptyMap == [k \in {} |-> <<>>]

Range(s) == {s[i] : i \in DOMAIN s}

\* a slice with its elements moved as the permutation p says
Reorder(s, p) == [i \in 1..Len(s) |-> s[p[i]]]

----------------------------------------------------------------------------
(* SortActivities *)

\* the time a CreateTime sorts by: time.Time{} when it does not parse
SortTime(ts) == IF ParseFails(ts) THEN Time(ZeroTime, 0) ELSE Parse(ts)

ActivityLess(x, y) ==
    IF x.DisplayName = y.DisplayName
    THEN Before(SortTime(x.CreateTime), SortTime(y.CreateTime))
    ELSE StrLess(x.DisplayName, y.DisplayName)

\* the orders sort.Slice may leave the slice in: every permutation that is
\* sorted by the less function (sort.Slice is not stable, elements that
\* compare equal may end in any order)
SortedActivities(s) ==
    {Reorder(s, p) : p \in
        {q \in Permutations(1..Len(s)) :
            \A i, j \in 1..Len(s) : i < j => ~ActivityLess(s[q[j]], s[q[i]])}}

SortActivities ==
    /\ pc = "sort"
    /\ activities' \in SortedActivities(activities)
    /\ pc' = "group"
    /\ UNCHANGED <<timeParam, date, userSessions, remaining, curUser, idx, currentSession,
                   sessions, parseErr, filteredSessions, totalTimeMap>>

----------------------------------------------------------------------------
(* processActivities *)

\* the first loop: partition by DisplayName, in slice order
GroupByName(acts) ==
    [n \in {a.DisplayName : a \in Range(acts)} |->
        SelectSeq(acts, LAMBDA a : a.DisplayName = n)]

Group ==
    /\ pc = "group"
    /\ userSessions' = GroupByName(activities)
    /\ remaining' = DOMAIN userSessions'
    /\ sessions' = <<>>
    /\ pc' = "range"
    /\ UNCHANGED <<timeParam, date, activities, curUser, idx, currentSession, parseErr,
                   filteredSessions, totalTimeMap>>

\* the range over the map takes the partitions in any order
NextUser ==
    /\ pc = "range"
    /\ \E u \in remaining :
        /\ curUser' = u
        /\ remaining' = remaining \ {u}
    /\ idx' = 1
    /\ currentSession' = <<>>
    /\ pc' = "inner"
    /\ UNCHANGED <<timeParam, date, activities, userSessions, sessions, parseErr,
                   filteredSessions, totalTimeMap>>

\* "return nil": processActivities ends without a session
ReturnNil ==
    /\ sessions' = <<>>
    /\ parseErr' = TRUE
    /\ currentSession' = <<>>
    /\ pc' = "filter"
    /\ UNCHANGED idx

OpenSession(a) ==
    Session(a.DisplayName, a.UserID, Parse(a.CreateTime), Parse(a.UpdateTime))

WidenActive(s, a) ==
    [s EXCEPT !.StartTime = minTime(s.StartTime, Parse(a.CreateTime)),
              !.EndTime = maxTime(s.EndTime, Parse(a.UpdateTime))]

WidenInactiveKeep(s, a) == s
WidenInactive(s, a) ==
    [s EXCEPT !.EndTime = maxTime(s.EndTime, Parse(a.UpdateTime))]

\* one iteration of the inner loop, with every state other than Inactive
\* taken for Active
ActivityNonZeroIsActive ==
    /\ pc = "inner"
    /\ idx <= Len(userSessions[curUser])
    /\ LET a == userSessions[curUser][idx] IN
        IF a.Active # InactiveState
        THEN IF ParseFails(a.CreateTime) \/ ParseFails(a.UpdateTime)
             THEN ReturnNil
             ELSE /\ currentSession' =
                        IF currentSession = <<>>
                        THEN <<OpenSession(a)>>
                        ELSE <<WidenActive(currentSession[1], a)>>
                  /\ idx' = idx + 1
                  /\ UNCHANGED <<sessions, parseErr, pc>>
        ELSE IF currentSession # <<>>
        THEN IF ParseFails(a.UpdateTime)
             THEN ReturnNil
             ELSE /\ sessions' = Append(sessions, WidenInactive(currentSession[1], a))
                  /\ currentSession' = <<>>
                  /\ idx' = idx + 1
                  /\ UNCHANGED <<parseErr, pc>>
        ELSE /\ idx' = idx + 1
             /\ UNCHANGED <<currentSession, sessions, parseErr, pc>>
    /\ UNCHANGED <<timeParam, date, activities, userSessions, remaining, curUser,
                   filteredSessions, totalTimeMap>>

\* one iteration of the inner loop
Activity ==
    /\ pc = "inner"
    /\ idx <= Len(userSessions[curUser])
    /\ LET a == userSessions[curUser][idx] IN
        IF a.Active = ActiveState
        THEN IF ParseFails(a.CreateTime) \/ ParseFails(a.UpdateTime)
             THEN ReturnNil
             ELSE /\ currentSession' =
                        IF currentSession = <<>>
                        THEN <<OpenSession(a)>>
                        ELSE <<WidenActive(currentSession[1], a)>>
                  /\ idx' = idx + 1
                  /\ UNCHANGED <<sessions, parseErr, pc>>
        ELSE IF a.Active = InactiveState /\ currentSession # <<>>
        THEN IF ParseFails(a.UpdateTime)
             THEN ReturnNil
             ELSE /\ sessions' = Append(sessions, WidenInactive(currentSession[1], a))
                  /\ currentSession' = <<>>
                  /\ idx' = idx + 1
                  /\ UNCHANGED <<parseErr, pc>>
        ELSE /\ idx' = idx + 1
             /\ UNCHANGED <<currentSession, sessions, parseErr, pc>>
    /\ UNCHANGED <<timeParam, date, activities, userSessions, remaining, curUser,
                   filteredSessions, totalTimeMap>>

\* after the inner loop: the trailing open session
EndUser ==
    /\ pc = "inner"
    /\ idx > Len(userSessions[curUser])
    /\ sessions' = IF currentSession # <<>>
                   THEN Append(sessions, currentSession[1])
                   ELSE sessions
    /\ currentSession' = <<>>
    /\ pc' = "range"
    /\ UNCHANGED <<timeParam, date, activities, userSessions, remaining, curUser, idx,
                   parseErr, filteredSessions, totalTimeMap>>

\* "return sessions"
ReturnSessions ==
    /\ pc = "range"
    /\ remaining = {}
    /\ pc' = "filter"
    /\ UNCHANGED <<timeParam, date, activities, userSessions, remaining, curUser, idx,
                   currentSession, sessions, parseErr, filteredSessions,
                   totalTimeMap>>

----------------------------------------------------------------------------
(* FilterSessions *)

SessionLess(x, y) ==
    IF x.Name = y.Name
    THEN Before(x.StartTime, y.StartTime)
    ELSE StrLess(x.Name, y.Name)

\* the orders the sort.Slice of FilterSessions may leave the slice in
SortedSessions(s) ==
    {Reorder(s, p) : p \in
        {q \in Permutations(1..Len(s)) :
            \A i, j \in 1..Len(s) : i < j => ~SessionLess(s[q[j]], s[q[i]])}}

Contains(t, s) ==
    /\ t.Name = s.Name
    /\ Before(t.StartTime, s.StartTime)
    /\ After(t.EndTime, s.EndTime)

\* the inner loop over j < i
isSubSessionPrevOnly(ss, i) == i > 1 /\ Contains(ss[i - 1], ss[i])
isSubSessionLoose(ss, i) ==
    \E j \in 1..(i - 1) :
        /\ ss[j].Name = ss[i].Name
        /\ ~After(ss[j].StartTime, ss[i].StartTime)
        /\ ~Before(ss[j].EndTime, ss[i].EndTime)
isSubSession(ss, i) == \E j \in 1..(i - 1) : Contains(ss[j], ss[i])

RECURSIVE FilterLoop(_, _)
FilterLoop(ss, i) ==
    IF i > Len(ss) THEN <<>>
    ELSE (IF isSubSession(ss, i) THEN <<>> ELSE <<ss[i]>>) \o FilterLoop(ss, i + 1)

\* FilterSessions sorts its argument in place, then filters
FilterSessions ==
    /\ pc = "filter"
    /\ sessions' \in SortedSessions(sessions)
    /\ filteredSessions' = FilterLoop(sessions', 1)
    /\ pc' = "calc"
    /\ UNCHANGED <<timeParam, date, activities, userSessions, remaining, curUser, idx,
                   currentSession, parseErr, totalTimeMap>>

----------------------------------------------------------------------------
(* CalculateTotalTimeForDate *)

startOfDay(d) == Truncate(d)
start3h(d) == Add(startOfDay(d), StartHour * Hour)
end5h(d) == Add(startOfDay(d), EndHour * Hour)

\* "the session is on the specified date"
OnDate(s, d) == CalendarDay(s.StartTime) = CalendarDay(d)

effectiveStart(s, d) ==
    IF Before(s.StartTime, start3h(d)) THEN start3h(d) ELSE s.StartTime
effectiveEnd(s, d) ==
    IF After(s.EndTime, end5h(d)) THEN end5h(d) ELSE s.EndTime

userKey(s) == s.Name \o s.GoogleID

\* the body of the loop over the sessions
AddSession(m, s, d) ==
    IF OnDate(s, d) /\ Before(effectiveStart(s, d), effectiveEnd(s, d))
    THEN LET duration == Sub(effectiveEnd(s, d), effectiveStart(s, d))
             key == userKey(s)
         IN IF key \in DOMAIN m
            THEN [m EXCEPT ![key].TotalTime = @ + duration]
            ELSE [k \in DOMAIN m \cup {key} |->
                    IF k = key
                    THEN SessionTime(s.Name, s.GoogleID, duration, startOfDay(d))
                    ELSE m[k]]
    ELSE m

RECURSIVE TotalTimeLoop(_, _, _)
TotalTimeLoop(ss, d, m) ==
    IF ss = <<>> THEN m
    ELSE TotalTimeLoop(Tail(ss), d, AddSession(m, Head(ss), d))

CalculateTotalTimeForDate ==
    /\ pc = "calc"
    /\ totalTimeMap' = TotalTimeLoop(filteredSessions, date, EmptyMap)
    /\ pc' = "done"
    /\ UNCHANGED <<timeParam, date, activities, userSessions, remaining, curUser, idx,
                   currentSession, sessions, parseErr, filteredSessions>>

----------------------------------------------------------------------------
(* The request handler: a batch of events run through the whole pipeline *)

Names == {StrA, StrAB}
UserIDs == {StrC}
States == {InactiveState, 1, ActiveState}
EventStamps == {BadStamp, Stamp(At(3, 0), 0), Stamp(At(4, 0), 0)}

Events ==
    {VoiceChannelUser(n, u, ct, ut, act) :
        n \in Names, u \in UserIDs, ct \in EventStamps, ut \in EventStamps,
        act \in States}


\* the end-to-end scenario: Active 10:00, Active 10:05, Inactive 10:10 for
\* subject "a", written in UTC (off = 0) or at UTC+7 (off = 7h)
ScenarioStamp(m, off) == Stamp(At(10, m) - off, off)
Scenario(off) ==
    << VoiceChannelUser(StrA, StrC, ScenarioStamp(0, off), ScenarioStamp(0, off), ActiveState),
       VoiceChannelUser(StrA, StrC, ScenarioStamp(5, off), ScenarioStamp(5, off), ActiveState),
       VoiceChannelUser(StrA, StrC, ScenarioStamp(10, off), ScenarioStamp(10, off), InactiveState) >>
ScenarioOffsets == {0, 7 * Hour}
ScenarioBatches ==
    {[i \in 1..3 |-> Scenario(off)[p[i]]] :
        off \in ScenarioOffsets, p \in Permutations(1..3)}

\* the target date: parseCustomDateFormat gives a UTC midnight, the default
\* (six days before now, in UTC) carries a time of day
Dates == {Time(TargetMidnight, 0), Time(At(10, 30), 0)}

\* the "time" query parameter: absent (the empty string), a string in the
\* format yyyy/mm/dd naming a day, or a string time.Parse rejects
NoParam == [present |-> FALSE, ok |-> FALSE, day |-> 0]
DayParam(d) == [present |-> TRUE, ok |-> TRUE, day |-> d]
BadParam == [present |-> TRUE, ok |-> FALSE, day |-> 0]
TimeParams == {NoParam, DayParam(TargetMidnight \div Day), BadParam}

\* parseCustomDateFormat: the error result, and the UTC midnight of the day
parseCustomDateFormatFails(p) == ~p.ok
parseCustomDateFormat(p) ==
    IF parseCustomDateFormatFails(p) THEN Time(ZeroTime, 0) ELSE Time(p.day * Day, 0)

\* now.UTC().AddDate(0, 0, -6), for the times the request may arrive at
DefaultDates == {Time(At(10, 30), 0)}

\* the date the handler goes on with: the default unless the parameter is
\* given and parses
TargetDateUnchecked(p, def) == IF p.present THEN parseCustomDateFormat(p) ELSE def
TargetDate(p, def) ==
    IF p.present /\ ~parseCustomDateFormatFails(p)
    THEN parseCustomDateFormat(p)
    ELSE def

\* the parameters a handler that goes on with date d may have been given
ParamsOf(d) == {p \in TimeParams : \E def \in DefaultDates : TargetDate(p, def) = d}

Init ==
    /\ pc = "sort"
    /\ date \in Dates
    /\ timeParam \in ParamsOf(date)
    /\ \/ \E k \in 0..MaxEvents : activities \in [1..k -> Events]
       \/ activities \in ScenarioBatches
    /\ userSessions = EmptyMap
    /\ remaining = {}
    /\ curUser = <<>>
    /\ idx = 1
    /\ currentSession = <<>>
    /\ sessions = <<>>
    /\ parseErr = FALSE
    /\ filteredSessions = <<>>
    /\ totalTimeMap = EmptyMap

Next ==
    \/ SortActivities
    \/ Group
    \/ NextUser
    \/ Activity
    \/ EndUser
    \/ ReturnSessions
    \/ FilterSessions
    \/ CalculateTotalTimeForDate

Spec == Init /\ [][Next]_vars

----------------------------------------------------------------------------
(* The request handler from the arrival of the request *)

\* the handler up to the call of SortActivities: the target date is read
\* from the parameter and FetchActivities returns the events of the day
HandleRequest ==
    /\ pc = "request"
    /\ \E def \in DefaultDates : date' = TargetDate(timeParam, def)
    /\ \/ \E k \in 0..MaxEvents : activities' \in [1..k -> Events]
       \/ activities' \in ScenarioBatches
    /\ pc' = "sort"
    /\ UNCHANGED <<timeParam, userSessions, remaining, curUser, idx,
                   currentSession, sessions, parseErr, filteredSessions,
                   totalTimeMap>>

\* FetchActivities returns an error: log.Fatal ends the process
FetchFails ==
    /\ pc = "request"
    /\ \E def \in DefaultDates : date' = TargetDate(timeParam, def)
    /\ pc' = "fatal"
    /\ UNCHANGED <<timeParam, activities, userSessions, remaining, curUser, idx,
                   currentSession, sessions, parseErr, filteredSessions,
                   totalTimeMap>>

InitHandler ==
    /\ pc = "request"
    /\ timeParam \in TimeParams
    /\ date = Time(ZeroTime, 0)
    /\ activities = <<>>
    /\ userSessions = EmptyMap
    /\ remaining = {}
    /\ curUser = <<>>
    /\ idx = 1
    /\ currentSession = <<>>
    /\ sessions = <<>>
    /\ parseErr = FALSE
    /\ filteredSessions = <<>>
    /\ totalTimeMap = EmptyMap

NextHandler ==
    \/ HandleRequest
    \/ FetchFails
    \/ SortActivities
    \/ Group
    \/ NextUser
    \/ Activity
    \/ EndUser
    \/ ReturnSessions
    \/ FilterSessions
    \/ CalculateTotalTimeForDate

SpecHandler == InitHandler /\ [][NextHandler]_vars

----------------------------------------------------------------------------
(* processActivities applied to any list of events, in any order *)

InitProcess ==
    /\ pc = "group"
    /\ date = Time(TargetMidnight, 0)
    /\ timeParam \in ParamsOf(date)
    /\ \E k \in 0..MaxEvents : activities \in [1..k -> Events]
    /\ userSessions = EmptyMap
    /\ remaining = {}
    /\ curUser = <<>>
    /\ idx = 1
    /\ currentSession = <<>>
    /\ sessions = <<>>
    /\ parseErr = FALSE
    /\ filteredSessions = <<>>
    /\ totalTimeMap = EmptyMap

NextProcess ==
    \/ Group
    \/ NextUser
    \/ Activity
    \/ EndUser
    \/ ReturnSessions

SpecProcess == InitProcess /\ [][NextProcess]_vars

----------------------------------------------------------------------------
(* FilterSessions applied to any list of sessions *)

\* <<start hour, end hour>>: three spans nested in each other, spans that
\* share a start or an end with the longest, spans that overlap partly, and
\* a span that ends before it starts
FilterSpans == {<<1, 6>>, <<2, 5>>, <<3, 4>>, <<1, 4>>, <<3, 6>>, <<4, 3>>}
FilterInputs ==
    {Session(n, StrC, Time(At(sp[1], 0), 0), Time(At(sp[2], 0), 0)) :
        n \in Names, sp \in FilterSpans}

InitFilter ==
    /\ pc = "filter"
    /\ date = Time(TargetMidnight, 0)
    /\ timeParam \in ParamsOf(date)
    /\ activities = <<>>
    /\ userSessions = EmptyMap
    /\ remaining = {}
    /\ curUser = <<>>
    /\ idx = 1
    /\ currentSession = <<>>
    /\ \E k \in 0..MaxSessions : sessions \in [1..k -> FilterInputs]
    /\ parseErr = FALSE
    /\ filteredSessions = <<>>
    /\ totalTimeMap = EmptyMap

NextFilter == FilterSessions

SpecFilter == InitFilter /\ [][NextFilter]_vars

----------------------------------------------------------------------------
(* CalculateTotalTimeForDate applied to any list of sessions *)

\* start times: the day before at 23:30 UTC, written in UTC and at UTC+7
\* (06:30 of the target day there); 02:00 and 04:00 UTC of the target day,
\* the latter also written at UTC-5 (23:00 of the day before there)
AggStarts ==
    { Time(TargetMidnight - 30, 0), Time(TargetMidnight - 30, 7 * Hour),
      Time(At(2, 0), 0), Time(At(4, 0), 0), Time(At(4, 0), 0 - 5 * Hour) }
AggEnds == { Time(At(2, 30), 0), Time(At(4, 0), 0), Time(At(6, 0), 0) }
GoogleIDs == {StrBC, StrC}
AggInputs ==
    {Session(n, g, st, et) :
        n \in Names, g \in GoogleIDs, st \in AggStarts, et \in AggEnds}

InitAgg ==
    /\ pc = "calc"
    /\ date \in Dates
    /\ timeParam \in ParamsOf(date)
    /\ activities = <<>>
    /\ userSessions = EmptyMap
    /\ remaining = {}
    /\ curUser = <<>>
    /\ idx = 1
    /\ currentSession = <<>>
    /\ sessions = <<>>
    /\ parseErr = FALSE
    /\ \E k \in 0..MaxAggSessions : filteredSessions \in [1..k -> AggInputs]
    /\ totalTimeMap = EmptyMap

NextAgg == CalculateTotalTimeForDate

SpecAgg == InitAgg /\ [][NextAgg]_vars

----------------------------------------------------------------------------
(* Properties of processActivities *)

Returned == pc \in {"filter", "calc", "done"}

Min(a, b) == IF a < b THEN a ELSE b
Max(a, b) == IF a > b THEN a ELSE b
SetMin(S) == CHOOSE x \in S : \A y \in S : x <= y
SetMax(S) == CHOOSE x \in S : \A y \in S : x >= y

AllParse(acts) == \A a \in Range(acts) : a.CreateTime.ok /\ a.UpdateTime.ok

\* the index of the event that opened the session open after the first i
\* events of a stream, 0 when none is open; read off the state values alone
RECURSIVE OpenIdx(_, _)
OpenIdx(st, i) ==
    IF i = 0 THEN 0
    ELSE LET p == OpenIdx(st, i - 1) IN
         IF st[i].Active = ActiveState THEN (IF p = 0 THEN i ELSE p)
         ELSE IF st[i].Active = InactiveState THEN 0
         ELSE p

EndsOpen(st) == OpenIdx(st, Len(st)) > 0
\* the Active events absorbed by the session that is open at the end
Absorbed(st) ==
    {i \in 1..Len(st) :
        /\ EndsOpen(st)
        /\ i >= OpenIdx(st, Len(st))
        /\ st[i].Active = ActiveState}
\* the Inactive events that arrive while a session is open
Closings(st) ==
    {i \in 1..Len(st) : st[i].Active = InactiveState /\ OpenIdx(st, i - 1) > 0}
\* the timestamps the reconstruction has to read, and one of them is malformed
ReadFails(st, i) ==
    \/ st[i].Active = ActiveState /\ (~st[i].CreateTime.ok \/ ~st[i].UpdateTime.ok)
    \/ i \in Closings(st) /\ ~st[i].UpdateTime.ok
SomeReadFails ==
    \E u \in DOMAIN userSessions :
        \E i \in 1..Len(userSessions[u]) : ReadFails(userSessions[u], i)

SessionsOf(u) == SelectSeq(sessions, LAMBDA s : s.Name = u)

\* C1: every session processActivities emits for a batch whose timestamps
\* all parse, closed by an Inactive event or trailing, has StartTime <= EndTime
C1_ClosureInvariant ==
    AllParse(activities) =>
        \A s \in Range(sessions) : s.StartTime.t <= s.EndTime.t

TrailingEmitted(u) ==
    LET st == userSessions[u]
        out == SessionsOf(u)
    IN  /\ Len(out) = Cardinality(Closings(st)) + 1
        /\ out[Len(out)].StartTime.t =
              SetMin({st[i].CreateTime.t : i \in Absorbed(st)})
        /\ out[Len(out)].EndTime.t =
              SetMax({st[i].UpdateTime.t : i \in Absorbed(st)})

\* C7 as stated: every subject whose stream ends while a session is open gets
\* that session emitted exactly once, from the minimum createdAt to the
\* maximum updatedAt of the Active events absorbed
C7_TrailingAlways ==
    pc = "filter" =>
        \A u \in DOMAIN userSessions :
            (AllParse(userSessions[u]) /\ EndsOpen(userSessions[u]))
                => TrailingEmitted(u)

\* C7 as amended: the same, unless processActivities aborted on a malformed
\* timestamp of this or of another subject (then it returns no session)
C7_TrailingUnlessAborted ==
    (pc = "filter" /\ ~parseErr) =>
        \A u \in DOMAIN userSessions :
            EndsOpen(userSessions[u]) => TrailingEmitted(u)

\* two Active events of one subject were absorbed into one trailing session
\* whose end is not the updatedAt of the last event
C7_Witness ==
    /\ pc = "filter"
    /\ ~parseErr
    /\ \E u \in DOMAIN userSessions :
        LET st == userSessions[u] IN
        /\ Len(st) = 2
        /\ Absorbed(st) = {1, 2}
        /\ st[2].UpdateTime.t < st[1].UpdateTime.t
        /\ Len(SessionsOf(u)) = 1

\* C8: while a session is open, an Active or Inactive event of its subject
\* never raises StartTime nor lowers EndTime, and an Inactive event leaves
\* StartTime as it was
C8_Step ==
    (pc = "inner" /\ currentSession # <<>> /\ idx' = idx + 1) =>
        LET old == currentSession[1]
            a == userSessions[curUser][idx]
        IN  /\ currentSession' # <<>> =>
                /\ currentSession'[1].StartTime.t <= old.StartTime.t
                /\ currentSession'[1].EndTime.t >= old.EndTime.t
            /\ a.Active = ActiveState => currentSession' # <<>>
            /\ a.Active = InactiveState =>
                /\ currentSession' = <<>>
                /\ Len(sessions') = Len(sessions) + 1
                /\ sessions'[Len(sessions')].StartTime = old.StartTime
                /\ sessions'[Len(sessions')].EndTime.t >= old.EndTime.t
C8_WideningNeverShrinks == [][C8_Step]_vars

\* a second Active event, whose updatedAt lies before the end of the open
\* session, has been absorbed
C8_Witness ==
    /\ pc = "inner"
    /\ idx = 3
    /\ currentSession # <<>>
    /\ userSessions[curUser][1].Active = ActiveState
    /\ userSessions[curUser][2].Active = ActiveState
    /\ userSessions[curUser][2].UpdateTime.t < currentSession[1].EndTime.t

----------------------------------------------------------------------------
(* The end-to-end scenario *)

IsScenario(off) == Len(activities) = 3 /\ Range(activities) = Range(Scenario(off))

\* the one session of the scenario: 10:00 to 10:10, as written at offset off
ScenarioSession(off) ==
    Session(StrA, StrC, Parse(ScenarioStamp(0, off)), Parse(ScenarioStamp(10, off)))

\* a stream that is a run of Active events closed by one Inactive event
ClosedRun(st) ==
    /\ Len(st) >= 2
    /\ st[Len(st)].Active = InactiveState
    /\ \A i \in 1..(Len(st) - 1) : st[i].Active = ActiveState

\* the run yields one session, from the minimum createdAt of its Active
\* events to the maximum updatedAt of its events, the Inactive one included
OneSessionOfRun(u) ==
    LET st == userSessions[u]
        out == SessionsOf(u)
    IN  /\ Len(out) = 1
        /\ out[1].StartTime.t = SetMin({st[i].CreateTime.t : i \in 1..(Len(st) - 1)})
        /\ out[1].EndTime.t = SetMax({st[i].UpdateTime.t : i \in 1..Len(st)})

RunsYieldOneSession ==
    (pc = "filter" /\ ~parseErr) =>
        \A u \in DOMAIN userSessions :
            ClosedRun(userSessions[u]) => OneSessionOfRun(u)

ScenarioSessions(off) ==
    (Returned /\ IsScenario(off)) =>
        /\ sessions = <<ScenarioSession(off)>>
        /\ pc \in {"calc", "done"} => filteredSessions = sessions

----------------------------------------------------------------------------
(* Properties of FilterSessions *)

BagOfSeq(q) == [x \in Range(q) |-> Cardinality({i \in DOMAIN q : q[i] = x})]

\* t has the Name of s, starts strictly earlier and ends strictly later
StrictlyAround(t, s) ==
    /\ t.Name = s.Name
    /\ t.StartTime.t < s.StartTime.t
    /\ t.EndTime.t > s.EndTime.t

Nested(s, all) == \E t \in Range(all) : StrictlyAround(t, s)

\* C3: a session that another session of the input with the same Name
\* strictly contains is not in the output of FilterSessions, also when the
\* containing session is dropped itself
C3_ContainmentRemoval ==
    pc = "calc" =>
        \A s \in Range(sessions) :
            Nested(s, sessions) => s \notin Range(filteredSessions)

\* three sessions nested in each other were filtered: the innermost is
\* contained in the middle one, which was dropped itself
C3_Witness ==
    /\ pc = "calc"
    /\ \E u, t, s \in Range(sessions) :
        /\ StrictlyAround(u, t)
        /\ StrictlyAround(t, s)
        /\ t \notin Range(filteredSessions)
        /\ s \notin Range(filteredSessions)
        /\ u \in Range(filteredSessions)

\* C9: FilterSessions drops exactly the sessions that another session of the
\* same Name strictly contains; every other session is in the output
\* unchanged and as often as it was in the input
C9_OthersRetained ==
    pc = "calc" =>
        BagOfSeq(filteredSessions) =
            BagOfSeq(SelectSeq(sessions, LAMBDA s : ~Nested(s, sessions)))

\* two equal sessions and a session sharing its start with them were kept
\* while a nested session was dropped
C9_Witness ==
    /\ pc = "calc"
    /\ Len(filteredSessions) < Len(sessions)
    /\ \E i, j \in DOMAIN filteredSessions :
        /\ i # j
        /\ filteredSessions[i] = filteredSessions[j]

----------------------------------------------------------------------------
(* Properties of CalculateTotalTimeForDate *)

RECURSIVE SumSeq(_)
SumSeq(q) == IF q = <<>> THEN 0 ELSE Head(q) + SumSeq(Tail(q))
\* the sum of f over the elements of a sequence
SumOver(q, f(_)) == SumSeq([i \in DOMAIN q |-> f(q[i])])

UTCMidnight(d) == UTCDay(d) * Day

\* the part of s inside the window 03:00-05:00 UTC of the target date
Overlap(s, d) ==
    Max(0, Min(s.EndTime.t, UTCMidnight(d) + 5 * Hour)
           - Max(s.StartTime.t, UTCMidnight(d) + 3 * Hour))

Pair(s) == <<s.Name, s.GoogleID>>

\* C4: the result holds one record for each (Name, GoogleID) pair with a
\* session that adds time, that record sums the sessions of the pair only,
\* and no two pairs share a record
C4_OneRecordPerPair ==
    pc = "done" =>
        LET counted == SelectSeq(filteredSessions,
                LAMBDA s : CalendarDay(s.StartTime) = CalendarDay(date)
                           /\ Overlap(s, date) > 0)
            pairs == {Pair(s) : s \in Range(counted)}
        IN  /\ Cardinality(DOMAIN totalTimeMap) = Cardinality(pairs)
            /\ \A p \in pairs :
                \E k \in DOMAIN totalTimeMap :
                    /\ totalTimeMap[k].Name = p[1]
                    /\ totalTimeMap[k].GoogleID = p[2]
                    /\ totalTimeMap[k].TotalTime =
                          SumOver(counted,
                              LAMBDA s : IF Pair(s) = p THEN Overlap(s, date) ELSE 0)

TwoToSix == Session(StrA, StrC, Time(At(2, 0), 0), Time(At(6, 0), 0))

Keys == {userKey(s) : s \in Range(filteredSessions)} \cup DOMAIN totalTimeMap

\* the key k holds the total, and has a record only when the total is positive
RecordIs(k, total) ==
    IF total > 0
    THEN k \in DOMAIN totalTimeMap /\ totalTimeMap[k].TotalTime = total
    ELSE k \notin DOMAIN totalTimeMap

TwoToSixIsTwoHours ==
    filteredSessions = <<TwoToSix>> =>
        totalTimeMap[userKey(TwoToSix)].TotalTime = 2 * Hour

\* C5: a session whose StartTime falls on the target calendar day (the UTC
\* day of the instant) adds max(0, min(EndTime, midnight+5h) -
\* max(StartTime, midnight+3h)) to its key, so a key whose sessions all
\* start on that day holds the sum of these amounts; 02:00-06:00 adds 2h; a
\* session that does not reach into the window adds nothing and creates no
\* record
C5_WindowClipping ==
    pc = "done" =>
        /\ \A k \in Keys :
            (\A s \in Range(filteredSessions) :
                userKey(s) = k => UTCDay(s.StartTime) = UTCDay(date))
            => RecordIs(k, SumOver(filteredSessions,
                    LAMBDA s : IF userKey(s) = k THEN Overlap(s, date) ELSE 0))
        /\ TwoToSixIsTwoHours

\* the clipping itself: every key holds the sum of the overlaps of its
\* sessions whose StartTime is on the target day as the code reads it, in the
\* zone the StartTime was written in
ClippingOnWrittenDay ==
    pc = "done" =>
        /\ \A k \in Keys :
            RecordIs(k, SumOver(filteredSessions,
                LAMBDA s : IF userKey(s) = k /\ CalendarDay(s.StartTime) = CalendarDay(date)
                           THEN Overlap(s, date) ELSE 0))
        /\ TwoToSixIsTwoHours

\* C6: only sessions whose StartTime lies on the UTC calendar day of the
\* target date add time: the total of a key is at most the overlap of its
\* sessions that start on that UTC day, for any offset the start is written
\* with
C6_UTCDayExclusion ==
    pc = "done" =>
        \A k \in DOMAIN totalTimeMap :
            totalTimeMap[k].TotalTime <=
                SumOver(filteredSessions,
                    LAMBDA s : IF userKey(s) = k /\ UTCDay(s.StartTime) = UTCDay(date)
                               THEN Overlap(s, date) ELSE 0)

----------------------------------------------------------------------------
(* Properties of the request handler *)

InvalidParam == timeParam.present /\ ~timeParam.ok

\* C11 as stated: a request whose time parameter is present and does not
\* parse is rejected, and nothing of the pipeline runs for it
C11_InvalidDateRejected ==
    InvalidParam => pc \in {"request", "rejected"}

\* C11 as amended: a request whose time parameter is present and does not
\* parse goes on with the default date; the pipeline runs for that date and
\* every record of the aggregate carries its day
C11_InvalidDateFallsBack ==
    (InvalidParam /\ pc # "request") =>
        /\ date \in DefaultDates
        /\ pc # "rejected"
        /\ \A k \in DOMAIN totalTimeMap : totalTimeMap[k].Date = startOfDay(date)

\* a request with an invalid time parameter was answered with an aggregate
\* for the default date
C11_Witness ==
    /\ pc = "done"
    /\ InvalidParam
    /\ date \in DefaultDates
    /\ totalTimeMap # EmptyMap
    /\ \A k \in DOMAIN totalTimeMap : totalTimeMap[k].Date = startOfDay(date)

----------------------------------------------------------------------------
(* Ignored events *)

\* the inner loop of processActivities over one subject's stream, from event
\* i on with the open session cur and the sessions out emitted so far
RECURSIVE UserLoop(_, _, _, _)
UserLoop(st, i, cur, out) ==
    IF i > Len(st)
    THEN [err |-> FALSE, out |-> IF cur # <<>> THEN Append(out, cur[1]) ELSE out]
    ELSE LET a == st[i] IN
         IF a.Active = ActiveState
         THEN IF ParseFails(a.CreateTime) \/ ParseFails(a.UpdateTime)
              THEN [err |-> TRUE, out |-> <<>>]
              ELSE UserLoop(st, i + 1,
                            IF cur = <<>> THEN <<OpenSession(a)>>
                                          ELSE <<WidenActive(cur[1], a)>>,
                            out)
         ELSE IF a.Active = InactiveState /\ cur # <<>>
         THEN IF ParseFails(a.UpdateTime)
              THEN [err |-> TRUE, out |-> <<>>]
              ELSE UserLoop(st, i + 1, <<>>, Append(out, WidenInactive(cur[1], a)))
         ELSE UserLoop(st, i + 1, cur, out)

\* the sessions of one subject's stream
StreamSessions(st) == UserLoop(st, 1, <<>>, <<>>)

\* event i of a stream is ignored: its state is neither Active nor Inactive,
\* or it is an Inactive event that arrives while no session is open
Ignored(st, i) ==
    \/ st[i].Active \notin {ActiveState, InactiveState}
    \/ st[i].Active = InactiveState /\ OpenIdx(st, i - 1) = 0

\* the stream without its ignored events
RECURSIVE KeepFrom(_, _)
KeepFrom(st, i) ==
    IF i > Len(st) THEN <<>>
    ELSE IF Ignored(st, i) THEN KeepFrom(st, i + 1)
    ELSE <<st[i]>> \o KeepFrom(st, i + 1)
RemoveIgnored(st) == KeepFrom(st, 1)

\* the inner loop is at an ignored event
AtIgnored ==
    /\ pc = "inner"
    /\ idx <= Len(userSessions[curUser])
    /\ \/ userSessions[curUser][idx].Active \notin {ActiveState, InactiveState}
       \/ /\ userSessions[curUser][idx].Active = InactiveState
          /\ currentSession = <<>>

\* the step over an ignored event leaves the open session, its bounds and
\* the emitted sessions as they are, and does not end the reconstruction
C12_Step ==
    AtIgnored =>
        /\ currentSession' = currentSession
        /\ sessions' = sessions
        /\ parseErr' = parseErr
        /\ pc' = pc

\* what processActivities returns is what it returns for the streams with
\* their ignored events removed
C12_Output ==
    pc = "filter" =>
        /\ parseErr =
              (\E u \in DOMAIN userSessions :
                  StreamSessions(RemoveIgnored(userSessions[u])).err)
        /\ ~parseErr =>
              \A u \in DOMAIN userSessions :
                  SessionsOf(u) = StreamSessions(RemoveIgnored(userSessions[u])).out

\* C12: an Inactive event with no open session and an event whose state is
\* neither Active nor Inactive leave the open session, its bounds and the
\* emitted sessions unchanged, and the output of processActivities is the
\* output for the stream without these events
C12_IgnoredChangeNothing == [](C12_Output) /\ [][C12_Step]_vars

\* processActivities returned sessions for a batch in which an event with an
\* unrecognised state arrived while a session was open
C12_Witness ==
    /\ pc = "filter"
    /\ ~parseErr
    /\ \E u \in DOMAIN userSessions :
          /\ SessionsOf(u) # <<>>
          /\ \E i \in 1..Len(userSessions[u]) :
                /\ userSessions[u][i].Active \notin {ActiveState, InactiveState}
                /\ OpenIdx(userSessions[u], i - 1) > 0

\* processActivities returned sessions for a batch in which an Inactive
\* event arrived while no session was open
C12_WitnessInactive ==
    /\ pc = "filter"
    /\ ~parseErr
    /\ \E u \in DOMAIN userSessions :
          /\ SessionsOf(u) # <<>>
          /\ \E i \in 1..Len(userSessions[u]) :
                /\ userSessions[u][i].Active = InactiveState
                /\ OpenIdx(userSessions[u], i - 1) = 0

----------------------------------------------------------------------------
(* Arrival order *)

\* the set of sessions processActivities returns for a sorted batch
SessionSet(acts) ==
    LET us == GroupByName(acts) IN
    IF \E u \in DOMAIN us : StreamSessions(us[u]).err
    THEN {}
    ELSE UNION {Range(StreamSessions(us[u]).out) : u \in DOMAIN us}

\* C13: the sessions processActivities returns are the same for every order
\* SortActivities may leave the batch in, whatever order the events arrived
\* in, events of one subject with equal createdAt included
C13_ArrivalOrderIndependent ==
    pc = "filter" =>
        \A other \in SortedActivities(activities) :
            SessionSet(other) = Range(sessions)

\* the batch of one subject with an Active and an Inactive event created at
\* the same instant, for which the two sorted orders give different sessions
C13_TieOrderMatters ==
    /\ pc = "filter"
    /\ AllParse(activities)
    /\ Len(activities) = 2
    /\ activities[1].DisplayName = activities[2].DisplayName
    /\ activities[1].CreateTime = activities[2].CreateTime
    /\ {activities[1].Active, activities[2].Active} = {ActiveState, InactiveState}
    /\ \E other \in SortedActivities(activities) :
          SessionSet(other) # Range(sessions)

====
